---- MODULE Spec2Model ----
(***************************************************************************)
(* Model of the crossword CSP solver of generate.py (CrosswordCreator):   *)
(* node consistency, AC-3 and heuristic backtracking search, as run by    *)
(* solve().  A word is a sequence of letters; offsets are 0-based as in   *)
(* the source, so the character at offset i of word w is w[i + 1].        *)
(***************************************************************************)
EXTENDS Integers, Sequences, FiniteSets, TLC

VARIABLES crossword, varOrder, domains, queue, ac3Result, assignment,
          stack, retval, pc

vars == <<crossword, varOrder, domains, queue, ac3Result, assignment,
          stack, retval, pc>>

(***************************************************************************)
(* Bounds and inputs.                                                      *)
(***************************************************************************)
\* largest word list handed to the solver
MaxWords == 4

\* the words a word list is drawn from
WordUniverse ==
    { <<"a","a">>, <<"a","b">>, <<"c","a">>,
      <<"a","a","a">>, <<"a","b","a">>, <<"b","a","a">>, <<"a","a","c">> }

\* overlaps[x, y] of two slots that do not cross (Python None)
NoOverlap == <<>>

\* a function returning None / returning the value v
None == <<>>
Some(v) == <<v>>

\* two crossing slots of length 2:  A[1] = B[0]
PuzzleX2 ==
    [ variables |-> {"A", "B"},
      length    |-> [v \in {"A", "B"} |-> 2],
      overlaps  |-> [p \in {<<"A","B">>, <<"B","A">>} |->
                       IF p = <<"A","B">> THEN <<1, 0>> ELSE <<0, 1>>] ]

\* H (across, 3) crossed by D1 and D2 (down, 2); E (across, 3) crosses nothing
PuzzleP1 ==
    [ variables |-> {"H", "D1", "D2", "E"},
      length    |-> [v \in {"H", "D1", "D2", "E"} |->
                       IF v \in {"H", "E"} THEN 3 ELSE 2],
      overlaps  |-> [p \in {q \in {"H", "D1", "D2", "E"} \X {"H", "D1", "D2", "E"} :
                              q[1] # q[2]} |->
                       CASE p = <<"H","D1">> -> <<0, 0>>
                         [] p = <<"D1","H">> -> <<0, 0>>
                         [] p = <<"H","D2">> -> <<2, 0>>
                         [] p = <<"D2","H">> -> <<0, 2>>
                         [] OTHER -> NoOverlap] ]

Structures == {PuzzleX2, PuzzleP1}

(***************************************************************************)
(* Generic helpers.                                                        *)
(***************************************************************************)
Range(s) == {s[k] : k \in DOMAIN s}

\* every order in which the elements of a set can be iterated
RECURSIVE Orders(_)
Orders(S) ==
    IF S = {} THEN {<<>>}
    ELSE UNION {{<<e>> \o t : t \in Orders(S \ {e})} : e \in S}

\* list.sort(key=...): a stable sort; the element at position i goes after
\* the elements with a smaller key and the earlier elements with its key
SortAsc(s, key) ==
    [p \in DOMAIN s |->
        s[CHOOSE i \in DOMAIN s :
            Cardinality({j \in DOMAIN s :
                \/ key[s[j]] < key[s[i]]
                \/ key[s[j]] = key[s[i]] /\ j < i}) = p - 1]]

\* list.sort(key=..., reverse=True): descending, equal keys keep their order
SortDesc(s, key) ==
    [p \in DOMAIN s |->
        s[CHOOSE i \in DOMAIN s :
            Cardinality({j \in DOMAIN s :
                \/ key[s[j]] > key[s[i]]
                \/ key[s[j]] = key[s[i]] /\ j < i}) = p - 1]]

\* the word lists: at most MaxWords words of the universe
WordLists == {W \in SUBSET WordUniverse : Cardinality(W) <= MaxWords}

(***************************************************************************)
(* The puzzle structure (crossword.variables, .overlaps, .neighbors).      *)
(***************************************************************************)
\* crossword.neighbors(var): the slots that overlap var
Neighbors(var) ==
    {v \in crossword.variables :
        v # var /\ crossword.overlaps[<<v, var>>] # NoOverlap}

(***************************************************************************)
(* Assignments: a dict, kept as the list of its (slot, word) items in      *)
(* insertion order.                                                        *)
(***************************************************************************)
AssignedVars(a) == {a[k][1] : k \in DOMAIN a}

ValueOf(a, var) == a[CHOOSE k \in DOMAIN a : a[k][1] = var][2]

\* assignment[var] = value
SetItem(a, var, value) ==
    IF var \in AssignedVars(a)
    THEN [k \in DOMAIN a |-> IF a[k][1] = var THEN <<var, value>> ELSE a[k]]
    ELSE Append(a, <<var, value>>)

\* a del that is forgotten
DelItemForgotten(a, var) == a

\* del assignment[var]
DelItem(a, var) == SelectSeq(a, LAMBDA e : e[1] # var)

(***************************************************************************)
(* enforce_node_consistency                                                *)
(***************************************************************************)
\* a node consistency that removes only the words that are too long
NodeConsistentDomainNotLonger(var) ==
    {word \in domains[var] : Len(word) <= crossword.length[var]}

\* the domain of var once every word of another length is removed
NodeConsistentDomain(var) ==
    {word \in domains[var] : Len(word) = crossword.length[var]}

(***************************************************************************)
(* revise and ac3                                                          *)
(***************************************************************************)
\* a revise that removes a word as soon as one word of y disagrees with it
ReviseRemovedAnyMismatch(x, y) ==
    LET overlap == crossword.overlaps[<<x, y>>] IN
    IF overlap # NoOverlap
    THEN {xword \in domains[x] :
            \E yword \in domains[y] :
                xword[overlap[1] + 1] # yword[overlap[2] + 1]}
    ELSE {}

\* a revise whose test is inverted: it removes the words that have a partner
ReviseRemovedMatching(x, y) ==
    LET overlap == crossword.overlaps[<<x, y>>] IN
    IF overlap # NoOverlap
    THEN {xword \in domains[x] :
            \E yword \in domains[y] :
                xword[overlap[1] + 1] = yword[overlap[2] + 1]}
    ELSE {}

\* the words revise(x, y) removes from domains[x]
ReviseRemoved(x, y) ==
    LET overlap == crossword.overlaps[<<x, y>>] IN
    IF overlap # NoOverlap
    THEN {xword \in domains[x] :
            \A yword \in domains[y] :
                xword[overlap[1] + 1] # yword[overlap[2] + 1]}
    ELSE {}

\* the value revise(x, y) returns
Revise(x, y) == ReviseRemoved(x, y) # {}

\* the orders in which ac3 can put the initial arcs: slots in the order of
\* crossword.variables, the neighbours of a slot in any order
RECURSIVE InitialArcs(_)
InitialArcs(order) ==
    IF order = <<>> THEN {<<>>}
    ELSE LET var == Head(order) IN
         {[k \in DOMAIN ns |-> <<var, ns[k]>>] \o rest :
             ns \in Orders(Neighbors(var)), rest \in InitialArcs(Tail(order))}

\* an ac3 that puts no arc back after a revision
RequeuedNothing(X, Y) == {<<>>}

\* the arcs (Z, X) ac3 puts back after revising X against Y, in any order
RequeuedArcs(X, Y) ==
    {[k \in DOMAIN zs |-> <<zs[k], X>>] : zs \in Orders(Neighbors(X) \ {Y})}

\* a queue whose first arc is read but never taken off
QueuePeek(q) == q

\* queue.get(): the queue without its first arc
QueueGet(q) == Tail(q)

(***************************************************************************)
(* assignment_complete and consistent                                      *)
(***************************************************************************)
AssignmentComplete(a) == Len(a) = Cardinality(crossword.variables)

\* a consistent that never appends to distinct
DistinctNeverAppended(a, k) == {}

\* a consistent that compares a word only with the words of neighbouring slots
DistinctNeighboursOnly(a, k) ==
    {a[m][2] : m \in {n \in 1..(k - 1) : a[n][1] \in Neighbors(a[k][1])}}

\* the list distinct when the loop of consistent reaches the k-th item: the
\* words of the items before it
Distinct(a, k) == {a[m][2] : m \in 1..(k - 1)}

\* the loop of consistent from the k-th item on
RECURSIVE ConsistentFrom(_, _)
ConsistentFrom(a, k) ==
    IF k > Len(a) THEN TRUE
    ELSE LET var == a[k][1]
         IN  IF a[k][2] \in Distinct(a, k) THEN FALSE
             ELSE IF Len(a[k][2]) # crossword.length[var] THEN FALSE
             ELSE IF \E neighbor \in Neighbors(var) :
                        LET arc == crossword.overlaps[<<var, neighbor>>] IN
                        /\ neighbor \in AssignedVars(a)
                        /\ a[k][2][arc[1] + 1] # ValueOf(a, neighbor)[arc[2] + 1]
                  THEN FALSE
             ELSE ConsistentFrom(a, k + 1)

\* a consistent without the comparison of the overlaps
ConsistentNoOverlapCheck(a) ==
    \A k \in DOMAIN a :
        /\ a[k][2] \notin Distinct(a, k)
        /\ Len(a[k][2]) = crossword.length[a[k][1]]

Consistent(a) == ConsistentFrom(a, 1)

(***************************************************************************)
(* order_domain_values and select_unassigned_variable                      *)
(***************************************************************************)
\* the cost of a value of var: the number of (neighbor, neighbor_value)
\* with neighbor not assigned and neighbor_value == value
Cost(var, a) ==
    [value \in domains[var] |->
        Cardinality({nn \in Neighbors(var) \X crossword.words :
            /\ nn[1] \notin AssignedVars(a)
            /\ nn[2] \in domains[nn[1]]
            /\ nn[2] = value})]

\* values_Dict.sort(key=self.get_cost, reverse=True)
SortByCost(values, cost) == SortDesc(values, cost)

\* the lists order_domain_values(var, a) can return: the domain is a set,
\* iterated in any order, then sorted (stably) by cost
OrderDomainValues(var, a) ==
    {SortByCost(values, Cost(var, a)) : values \in Orders(domains[var])}

\* variables_tied: the first slot and every slot with the same mrv as the
\* slot before it
VariablesTied(variables, mrv) ==
    LET idx == SelectSeq([i \in 1..(Len(variables) - 1) |-> i],
                         LAMBDA i : mrv[variables[i]] = mrv[variables[i + 1]])
    IN  <<variables[1]>> \o [k \in DOMAIN idx |-> variables[idx[k] + 1]]

\* the slot select_unassigned_variable returns, given the list variables
\* sorted by mrv
SelectFromSorted(variables, mrv, degree) ==
    IF Len(variables) = 1 THEN variables[1]
    ELSE IF mrv[variables[1]] # mrv[variables[2]] THEN variables[1]
    ELSE SortDesc(VariablesTied(variables, mrv), degree)[1]

SelectUnassignedVariable(a) ==
    LET variables_new == SelectSeq(varOrder, LAMBDA v : v \notin AssignedVars(a))
        mrv == [v \in crossword.variables |-> Cardinality(domains[v])]
        degree == [v \in crossword.variables |-> Cardinality(Neighbors(v))]
    IN  CHOOSE var \in {SelectFromSorted(variables, mrv, degree) :
                           variables \in {SortAsc(variables_new, mrv)}} : TRUE

(***************************************************************************)
(* The state machine of solve().                                           *)
(***************************************************************************)
\* __init__: every domain is a copy of the word list
Init ==
    /\ \E s \in Structures, W \in WordLists :
          crossword = [variables |-> s.variables, length |-> s.length,
                       overlaps |-> s.overlaps, words |-> W]
    /\ varOrder \in Orders(crossword.variables)
    /\ domains = [var \in crossword.variables |-> crossword.words]
    /\ queue = <<>>
    /\ ac3Result = "none"
    /\ assignment = <<>>
    /\ stack = <<>>
    /\ retval = None
    /\ pc = "solve"

\* solve: self.enforce_node_consistency()
EnforceNodeConsistency ==
    /\ pc = "solve"
    /\ domains' = [var \in crossword.variables |-> NodeConsistentDomain(var)]
    /\ pc' = "ac3"
    /\ UNCHANGED <<crossword, varOrder, queue, ac3Result, assignment, stack, retval>>

\* solve: self.ac3(); ac3 fills the queue with every arc
Ac3Init ==
    /\ pc = "ac3"
    /\ queue' \in InitialArcs(varOrder)
    /\ pc' = "ac3loop"
    /\ UNCHANGED <<crossword, varOrder, domains, ac3Result, assignment, stack, retval>>

\* one turn of the while loop of ac3 that does not return
Ac3Step ==
    /\ pc = "ac3loop"
    /\ queue # <<>>
    /\ LET X == Head(queue)[1]
           Y == Head(queue)[2]
       IN  IF Revise(X, Y)
           THEN /\ domains[X] \ ReviseRemoved(X, Y) # {}
                /\ domains' = [domains EXCEPT ![X] = @ \ ReviseRemoved(X, Y)]
                /\ \E arcs \in RequeuedArcs(X, Y) : queue' = QueueGet(queue) \o arcs
           ELSE /\ domains' = domains
                /\ queue' = QueueGet(queue)
    /\ UNCHANGED <<crossword, varOrder, ac3Result, assignment, stack, retval, pc>>

\* a turn of the while loop that empties domains[X]: ac3 returns False
Ac3ReturnFalse ==
    /\ pc = "ac3loop"
    /\ queue # <<>>
    /\ LET X == Head(queue)[1]
           Y == Head(queue)[2]
       IN  /\ Revise(X, Y)
           /\ domains[X] \ ReviseRemoved(X, Y) = {}
           /\ domains' = [domains EXCEPT ![X] = @ \ ReviseRemoved(X, Y)]
    /\ queue' = <<>>
    /\ ac3Result' = "False"
    /\ pc' = "ac3done"
    /\ UNCHANGED <<crossword, varOrder, assignment, stack, retval>>

\* the queue is empty: ac3 returns True
Ac3ReturnTrue ==
    /\ pc = "ac3loop"
    /\ queue = <<>>
    /\ ac3Result' = "True"
    /\ pc' = "ac3done"
    /\ UNCHANGED <<crossword, varOrder, domains, queue, assignment, stack, retval>>

\* solve: return self.backtrack(dict()), whatever ac3 returned
SolveBacktrack ==
    /\ pc = "ac3done"
    /\ assignment' = <<>>
    /\ pc' = "call"
    /\ UNCHANGED <<crossword, varOrder, domains, queue, ac3Result, stack, retval>>

\* backtrack(assignment) is entered with a complete assignment: return it
BacktrackComplete ==
    /\ pc = "call"
    /\ AssignmentComplete(assignment)
    /\ retval' = Some(assignment)
    /\ pc' = "ret"
    /\ UNCHANGED <<crossword, varOrder, domains, queue, ac3Result, assignment, stack>>

\* backtrack(assignment) is entered with an incomplete assignment: select a
\* slot, order its values and start the for loop; the frame of the call keeps
\* var, the values still to try and the assignment at entry
BacktrackSelect ==
    /\ pc = "call"
    /\ ~AssignmentComplete(assignment)
    /\ \E var \in {SelectUnassignedVariable(assignment)} :
       \E values \in OrderDomainValues(var, assignment) :
          stack' = Append(stack, [var |-> var, values |-> values,
                                  entry |-> assignment])
    /\ pc' = "loop"
    /\ UNCHANGED <<crossword, varOrder, domains, queue, ac3Result, assignment, retval>>

\* a turn of the for loop that also narrows the domain of var to the value
\* it assigns
BacktrackTryNarrowing ==
    /\ pc = "loop"
    /\ stack[Len(stack)].values # <<>>
    /\ LET frame == stack[Len(stack)]
           value == Head(frame.values)
           tried == SetItem(assignment, frame.var, value)
       IN  /\ stack' = [stack EXCEPT ![Len(stack)].values = Tail(@)]
           /\ IF Consistent(tried)
              THEN /\ assignment' = tried
                   /\ domains' = [domains EXCEPT ![frame.var] = {value}]
                   /\ pc' = "call"
              ELSE /\ assignment' = DelItem(tried, frame.var)
                   /\ domains' = domains
                   /\ pc' = "loop"
    /\ UNCHANGED <<crossword, varOrder, queue, ac3Result, retval>>

\* one turn of the for loop up to the recursive call or the del
BacktrackTry ==
    /\ pc = "loop"
    /\ stack[Len(stack)].values # <<>>
    /\ LET frame == stack[Len(stack)]
           value == Head(frame.values)
           tried == SetItem(assignment, frame.var, value)
       IN  /\ stack' = [stack EXCEPT ![Len(stack)].values = Tail(@)]
           /\ IF Consistent(tried)
              THEN assignment' = tried /\ pc' = "call"
              ELSE assignment' = DelItem(tried, frame.var) /\ pc' = "loop"
    /\ UNCHANGED <<crossword, varOrder, domains, queue, ac3Result, retval>>

\* the for loop is over: this call returns None
BacktrackExhausted ==
    /\ pc = "loop"
    /\ stack[Len(stack)].values = <<>>
    /\ stack' = SubSeq(stack, 1, Len(stack) - 1)
    /\ retval' = None
    /\ pc' = "ret"
    /\ UNCHANGED <<crossword, varOrder, domains, queue, ac3Result, assignment>>

\* the recursive call returned None: del assignment[var], next turn
BacktrackUndo ==
    /\ pc = "ret"
    /\ stack # <<>>
    /\ retval = None
    /\ assignment' = DelItem(assignment, stack[Len(stack)].var)
    /\ pc' = "loop"
    /\ UNCHANGED <<crossword, varOrder, domains, queue, ac3Result, stack, retval>>

\* the recursive call returned a result: return it
BacktrackPropagate ==
    /\ pc = "ret"
    /\ stack # <<>>
    /\ retval # None
    /\ stack' = SubSeq(stack, 1, Len(stack) - 1)
    /\ UNCHANGED <<crossword, varOrder, domains, queue, ac3Result, assignment, retval, pc>>

\* the outermost backtrack returned: solve returns its result
SolveReturn ==
    /\ pc = "ret"
    /\ stack = <<>>
    /\ pc' = "done"
    /\ UNCHANGED <<crossword, varOrder, domains, queue, ac3Result, assignment, stack, retval>>

Next ==
    \/ EnforceNodeConsistency
    \/ Ac3Init
    \/ Ac3Step
    \/ Ac3ReturnFalse
    \/ Ac3ReturnTrue
    \/ SolveBacktrack
    \/ BacktrackComplete
    \/ BacktrackSelect
    \/ BacktrackTry
    \/ BacktrackExhausted
    \/ BacktrackUndo
    \/ BacktrackPropagate
    \/ SolveReturn

Spec == Init /\ [][Next]_vars

\* solve runs to its end: no step of it waits for anything
FairSpec == Spec /\ WF_vars(Next)

TypeOK ==
    /\ pc \in {"solve", "ac3", "ac3loop", "ac3done", "call", "loop", "ret", "done"}
    /\ ac3Result \in {"none", "True", "False"}
    /\ \A var \in crossword.variables : domains[var] \subseteq crossword.words

(***************************************************************************)
(* What a solution is, stated without the solver.                          *)
(***************************************************************************)
\* the words of the word list with the length of slot v
WordsOfLength(v) == {w \in crossword.words : Len(w) = crossword.length[v]}

\* f maps every slot to a word: pairwise distinct, of the slot's length,
\* agreeing at every overlap
ValidAssignment(f) ==
    /\ \A x, y \in crossword.variables : x # y => f[x] # f[y]
    /\ \A x \in crossword.variables : Len(f[x]) = crossword.length[x]
    /\ \A x, y \in crossword.variables :
          (x # y /\ crossword.overlaps[<<x, y>>] # NoOverlap) =>
             f[x][crossword.overlaps[<<x, y>>][1] + 1]
               = f[y][crossword.overlaps[<<x, y>>][2] + 1]

SolutionExists ==
    \E f \in [crossword.variables -> crossword.words] : ValidAssignment(f)

InBacktrack == pc \in {"call", "loop", "ret"}

\* C1: every complete assignment solve() returns maps every slot to one
\* word, the words pairwise distinct, each of its slot's length, and
\* neighbouring slots agreeing at their overlap offsets.
C1_ReturnedAssignmentValid ==
    (pc = "done" /\ retval # None) =>
        LET a == retval[1] IN
        /\ Len(a) = Cardinality(crossword.variables)
        /\ AssignedVars(a) = crossword.variables
        /\ ValidAssignment([v \in crossword.variables |-> ValueOf(a, v)])

\* solve() returned an assignment of the four-slot puzzle
C1_Witness ==
    /\ pc = "done"
    /\ retval # None
    /\ Cardinality(crossword.variables) = 4

\* C2: whenever ac3 returned False, backtrack is never invoked afterwards
\* and solve() returns "no solution".
C2_NoBacktrackAfterAc3Failure ==
    ac3Result = "False" =>
        /\ ~InBacktrack
        /\ pc = "done" => retval = None

\* C3: when some valid complete assignment exists, solve() returns a
\* complete assignment (it returns None only when none exists).
C3_NoneOnlyIfUnsolvable ==
    (pc = "done" /\ SolutionExists) => retval # None

\* solve() returned a solution of a puzzle in which ac3 had removed words
C3_Witness ==
    /\ pc = "done"
    /\ SolutionExists
    /\ retval # None
    /\ \E v \in crossword.variables : domains[v] # WordsOfLength(v)

\* C4: when node consistency empties some slot's domain, solve() reports
\* "no solution" and backtrack is never invoked.
C4_NoBacktrackAfterEmptyNodeDomain ==
    (\E v \in crossword.variables : WordsOfLength(v) = {}) =>
        /\ ~InBacktrack
        /\ pc = "done" => retval = None

\* C5: solve() always terminates: ac3 leaves its loop and backtrack
\* returns an assignment or None.
C5_SolveTerminates == <>(pc = "done")

\* solve() returned None after ac3 had returned True: the search ran out
\* of candidates
C5_Witness ==
    /\ pc = "done"
    /\ ac3Result = "True"
    /\ retval = None
    /\ \A v \in crossword.variables : domains[v] # {}

\* C6: after ac3() returned True, every word of every slot x has, for every
\* neighbour y with overlap (i, j), a word v in y's domain with w[i] = v[j].
C6_ArcConsistentAfterAc3 ==
    ac3Result = "True" =>
        \A x \in crossword.variables : \A y \in Neighbors(x) :
            \A w \in domains[x] : \E v \in domains[y] :
                w[crossword.overlaps[<<x, y>>][1] + 1]
                  = v[crossword.overlaps[<<x, y>>][2] + 1]

\* ac3() returned True after removing words from a slot with two neighbours
C6_Witness ==
    /\ ac3Result = "True"
    /\ \E x \in crossword.variables :
          /\ Cardinality(Neighbors(x)) = 2
          /\ domains[x] # {}
          /\ domains[x] # WordsOfLength(x)

\* C7: ac3() returns True only when no slot's domain is empty, and False
\* when one or more domains end up empty.
C7_Ac3TrueIffNoEmptyDomain ==
    pc = "ac3done" =>
        (ac3Result = "True" <=> \A v \in crossword.variables : domains[v] # {})

\* C8: after enforce_node_consistency() the domain of every slot is exactly
\* the words of the word list with the slot's length.
C8_NodeConsistentDomains ==
    pc = "ac3" => \A v \in crossword.variables : domains[v] = WordsOfLength(v)

\* node consistency removed a word from a slot and kept another one
C8_Witness ==
    /\ pc = "ac3"
    /\ \E v \in crossword.variables :
          domains[v] # {} /\ domains[v] # crossword.words

\* the unassigned slots, and those of them with the smallest domain
Unassigned(a) == crossword.variables \ AssignedVars(a)

MinDomain(a) ==
    {v \in Unassigned(a) :
        \A u \in Unassigned(a) : Cardinality(domains[v]) <= Cardinality(domains[u])}

\* C9: select_unassigned_variable(a) returns an unassigned slot of minimal
\* domain size and, among those, of maximal number of neighbours.
C9_SelectIsMrvThenDegree ==
    (pc = "call" /\ ~AssignmentComplete(assignment)) =>
        LET v == SelectUnassignedVariable(assignment) IN
        /\ v \in MinDomain(assignment)
        /\ \A u \in MinDomain(assignment) :
              Cardinality(Neighbors(u)) <= Cardinality(Neighbors(v))

\* C10: order_domain_values(var, a) returns every word of var's domain
\* exactly once, by non-decreasing cost.
C10_ValuesByNonDecreasingCost ==
    (pc = "call" /\ ~AssignmentComplete(assignment)) =>
        LET var == SelectUnassignedVariable(assignment) IN
        \A values \in OrderDomainValues(var, assignment) :
            /\ Range(values) = domains[var]
            /\ Len(values) = Cardinality(domains[var])
            /\ \A i, j \in DOMAIN values :
                  i < j => Cost(var, assignment)[values[i]]
                             <= Cost(var, assignment)[values[j]]

\* the assignment the next turn of the for loop hands to consistent
TriedAssignment ==
    SetItem(assignment, stack[Len(stack)].var, Head(stack[Len(stack)].values))

\* a is valid as a partial assignment: words of the slots' lengths, no word
\* in two slots, assigned neighbours agreeing at their overlap
ValidPartial(a) ==
    /\ \A k \in DOMAIN a : Len(a[k][2]) = crossword.length[a[k][1]]
    /\ \A k, m \in DOMAIN a : k # m => a[k][2] # a[m][2]
    /\ \A k, m \in DOMAIN a :
          (k # m /\ crossword.overlaps[<<a[k][1], a[m][1]>>] # NoOverlap) =>
             a[k][2][crossword.overlaps[<<a[k][1], a[m][1]>>][1] + 1]
               = a[m][2][crossword.overlaps[<<a[k][1], a[m][1]>>][2] + 1]

\* C11: consistent(a) returns True exactly when every assigned word has its
\* slot's length, no word is assigned to two slots (neighbours or not) and
\* assigned neighbours agree at their overlap offsets.
C11_ConsistentIffValid ==
    (pc = "loop" /\ stack[Len(stack)].values # <<>>) =>
        (Consistent(TriedAssignment) <=> ValidPartial(TriedAssignment))

\* consistent is handed an assignment with the same word in two slots that
\* are not neighbours
C11_Witness ==
    /\ pc = "loop"
    /\ stack[Len(stack)].values # <<>>
    /\ \E k, m \in DOMAIN TriedAssignment :
          /\ k # m
          /\ TriedAssignment[k][2] = TriedAssignment[m][2]
          /\ crossword.overlaps[<<TriedAssignment[k][1], TriedAssignment[m][1]>>]
               = NoOverlap

(***************************************************************************)
(* The two consistency methods called again: after ac3 has returned,       *)
(* enforce_node_consistency() and ac3() are run once more, any number of   *)
(* times.                                                                  *)
(***************************************************************************)
\* self.enforce_node_consistency() again, then self.ac3() from its start
RerunConsistency ==
    /\ pc = "ac3done"
    /\ domains' = [var \in crossword.variables |-> NodeConsistentDomain(var)]
    /\ pc' = "ac3"
    /\ UNCHANGED <<crossword, varOrder, queue, ac3Result, assignment, stack, retval>>

RerunNext ==
    \/ EnforceNodeConsistency
    \/ Ac3Init
    \/ Ac3Step
    \/ Ac3ReturnFalse
    \/ Ac3ReturnTrue
    \/ RerunConsistency

RerunSpec == Init /\ [][RerunNext]_vars

\* C12: enforce_node_consistency() run a second time removes no word, and
\* once ac3() has returned True every later run of it removes no word and
\* returns True again.
C12_ConsistencyIdempotent ==
    [][ /\ pc = "ac3done" => domains' = domains
        /\ ac3Result = "True" => (domains' = domains /\ ac3Result' = "True")
      ]_vars

\* a second run of ac3, after a first one that removed words and returned
\* True, has gone through all its arcs
C12_Witness ==
    /\ pc = "ac3loop"
    /\ ac3Result = "True"
    /\ queue = <<>>
    /\ \E x \in crossword.variables :
          domains[x] # {} /\ domains[x] # WordsOfLength(x)

\* the words of x's domain with no partner in y's domain at the overlap
Unsupported(x, y) ==
    {w \in domains[x] :
        ~ \E v \in domains[y] :
            w[crossword.overlaps[<<x, y>>][1] + 1]
              = v[crossword.overlaps[<<x, y>>][2] + 1]}

\* C13: revise(x, y) removes from x's domain exactly the words without a
\* partner in y's domain, returns True iff it removed one, and changes no
\* other domain; for slots without overlap it changes nothing and returns
\* False.
C13_ReviseEffect ==
    [][ /\ (pc = "ac3loop" /\ queue # <<>>) =>
              LET x == Head(queue)[1]
                  y == Head(queue)[2]
              IN  /\ domains'[x] = domains[x] \ Unsupported(x, y)
                  /\ \A v \in crossword.variables \ {x} : domains'[v] = domains[v]
                  /\ Revise(x, y) <=> domains'[x] # domains[x]
        /\ \A x, y \in crossword.variables :
              (x # y /\ crossword.overlaps[<<x, y>>] = NoOverlap) =>
                  (ReviseRemoved(x, y) = {} /\ ~Revise(x, y))
      ]_vars

\* ac3 is in its loop after a revise removed some words of a slot and kept
\* others, the domain of another slot being as node consistency left it
C13_Witness ==
    /\ pc = "ac3loop"
    /\ ac3Result = "none"
    /\ \E x, y \in crossword.variables :
          /\ x # y
          /\ domains[x] # {}
          /\ domains[x] # WordsOfLength(x)
          /\ domains[y] = WordsOfLength(y)
          /\ domains[y] # {}

\* C14: node consistency and ac3 never remove from a slot's domain a word
\* the slot holds in some valid complete assignment; so when ac3() returns
\* False no valid complete assignment exists and the search ends with None.
C14_PruningKeepsSolutions ==
    /\ pc \in {"ac3", "ac3loop", "ac3done"} =>
          \A f \in [crossword.variables -> crossword.words] :
              ValidAssignment(f) =>
                  \A v \in crossword.variables : f[v] \in domains[v]
    /\ ac3Result = "False" => ~SolutionExists
    /\ (ac3Result = "False" /\ pc = "done") => retval = None

\* ac3 returned False on a puzzle where every slot has words of its length,
\* and the search over the domains has ended
C14_Witness ==
    /\ ac3Result = "False"
    /\ pc = "done"
    /\ \A v \in crossword.variables : WordsOfLength(v) # {}

\* C15: at every entry to backtrack the assignment is valid: words pairwise
\* distinct, each of its slot's length and in its slot's current domain,
\* assigned neighbours agreeing at their overlap offsets.
C15_AssignmentValidAtEntry ==
    pc = "call" =>
        /\ ValidPartial(assignment)
        /\ \A k \in DOMAIN assignment :
              assignment[k][2] \in domains[assignment[k][1]]

\* a recursive call of backtrack is entered with two neighbouring slots
\* assigned
C15_Witness ==
    /\ pc = "call"
    /\ stack # <<>>
    /\ \E k, m \in DOMAIN assignment :
          k # m /\ crossword.overlaps[<<assignment[k][1], assignment[m][1]>>] # NoOverlap

\* C16: every tentative assignment is undone on failure: between two turns
\* of the for loop of a call the assignment is as it was when the call was
\* entered, and so it is when the call returns None.
C16_UndoOnFailure ==
    [][ /\ pc' = "loop" => assignment' = stack'[Len(stack')].entry
        /\ (pc = "loop" /\ pc' = "ret") => assignment' = stack[Len(stack)].entry
      ]_vars

\* a recursive call that tried a value has just returned None to its
\* caller, whose tentative assignment is still in place
C16_Witness ==
    /\ pc = "ret"
    /\ retval = None
    /\ stack # <<>>
    /\ stack[Len(stack)].var \in AssignedVars(assignment)
    /\ \E v \in Unassigned(assignment) : domains[v] # {}

\* C17: domains never grow during solve(): every step leaves each slot's
\* domain a subset of what it was, and the steps of the backtracking phase
\* leave every domain unchanged.
C17_DomainsOnlyShrink ==
    [][ /\ \A v \in crossword.variables : domains'[v] \subseteq domains[v]
        /\ InBacktrack => domains' = domains
      ]_vars

\* the search is between two turns of a loop, one value tried, over domains
\* from which ac3 removed words
C17_Witness ==
    /\ pc = "loop"
    /\ Len(stack[Len(stack)].values) < Cardinality(domains[stack[Len(stack)].var])
    /\ \E v \in crossword.variables :
          domains[v] # {} /\ domains[v] # WordsOfLength(v)

\* the number of nested active calls of backtrack: the calls in their loop
\* and the call being entered
ActiveCalls == Len(stack) + (IF pc = "call" THEN 1 ELSE 0)

\* C18: the recursion depth of backtrack is bounded by the number of slots:
\* at most (number of slots + 1) calls are nested, and the call at depth d
\* (the outermost being 0) is entered with exactly d slots assigned.
C18_DepthBoundedBySlots ==
    /\ ActiveCalls <= Cardinality(crossword.variables) + 1
    /\ pc = "call" => Len(assignment) = Len(stack)
    /\ \A d \in DOMAIN stack : Len(stack[d].entry) = d - 1

\* backtrack is entered at the deepest level of the four-slot puzzle: every
\* slot is assigned and five calls are nested
C18_Witness ==
    /\ pc = "call"
    /\ Cardinality(crossword.variables) = 4
    /\ ActiveCalls = 5

====
